---- MODULE Spec2Model ----
(***************************************************************************)
(* Weather ETL pipeline: extraction with retry (src/src/extract.py,        *)
(* src/src/utils.py), transformation (src/src/transform.py), the loader    *)
(* (src/src/load.py) and the orchestrator (src/main.py).                   *)
(*                                                                         *)
(* Numbers.  A raw temperature is held in thousandths of a degree, a       *)
(* rounded (2-decimal) temperature in hundredths.  A Python None in a      *)
(* numeric position is the reserved number Null; a None in an object       *)
(* position is NoneV; a dict is a function from its keys, so that          *)
(* "k in d" is k \in DOMAIN d and d[k] on a missing key is a KeyError.     *)
(***************************************************************************)
EXTENDS Integers, Sequences, FiniteSets, TLC

\* ------------------------------------------------------------------ bounds
\* Longest city list handed to fetch_weather_for_cities.
MaxCities == 2
\* Longest list of normalized records a loader is started with.
MaxRecords == 1
\* Data-layer failures (connectivity loss) injected in all.
MaxDbFaults == 1
\* Calls of load_multiple_records a loader makes with its list (1 = no re-run).
MaxPasses == 2
\* Longest list of raw records handed to transform_multiple_records directly.
MaxRaw == 2

\* --------------------------------------------------------- program constants
MAX_RETRIES == 3
TEMP_MIN == -100
TEMP_MAX == 60
HUMIDITY_MIN == 0
HUMIDITY_MAX == 100

\* None in a numeric position (dict.get on a missing key, JSON null).
Null == -999999
\* None in an object position (a function returning no dict).
NoneV == [py |-> "None"]
\* The empty dict {}.
EmptyDict == <<>>

\* ------------------------------------------------------------- Python basics
\* bool(v) of a number or None.
TruthyNum(v) == v # Null /\ v # 0
\* bool(d) of a dict or None.
TruthyObj(d) == d # NoneV /\ d # EmptyDict
\* d.get(k, 0): a default number for a missing key.
Get_default_zero(d, k) == IF k \in DOMAIN d THEN d[k] ELSE 0

\* d.get(k): the value, or None.
Get(d, k) == IF k \in DOMAIN d THEN d[k] ELSE Null
\* d.get(k, {}): the value, or the empty dict.
GetDict(d, k) == IF k \in DOMAIN d THEN d[k] ELSE EmptyDict
\* The dict d without key k.
Without(d, k) == [f \in DOMAIN d \ {k} |-> d[f]]
\* The dict d with key k set to v.
With(d, k, v) == [f \in DOMAIN d \cup {k} |-> IF f = k THEN v ELSE d[f]]

\* The value held in thousandths cut to hundredths (int(x * 100) / 100).
Round2_truncate(m) == IF m >= 0 THEN m \div 10 ELSE -((-m) \div 10)

\* round(x, 2) of a value held in thousandths, as hundredths: to the nearest
\* hundredth, a tie going to the even hundredth.
Round2(m) ==
    LET q == m \div 10
        r == m % 10
    IN  IF r < 5 THEN q
        ELSE IF r > 5 THEN q + 1
        ELSE IF q % 2 = 0 THEN q ELSE q + 1

\* datetime.fromtimestamp(dt): the calendar timestamp of unix time dt.
fromtimestamp(dt) == [calendar |-> dt]

\* ------------------------------------------------------------------- utils
\* validate_weather_data with the limits themselves out of range (<= and >=).
\* validate_weather_data without its temperature check.
validate_weather_data_raises_fields_only(data) ==
    \E f \in {"coord", "main", "name"} : f \notin DOMAIN data

validate_weather_data_raises_inclusive(data) ==
    IF \E f \in {"coord", "main", "name"} : f \notin DOMAIN data
    THEN TRUE
    ELSE LET temp_celsius == Get(data.main, "temp")
         IN  TruthyNum(temp_celsius)
             /\ (temp_celsius <= TEMP_MIN * 1000 \/ temp_celsius >= TEMP_MAX * 1000)

\* validate_weather_data raises ValueError (TRUE) or returns True (FALSE).
validate_weather_data_raises(data) ==
    IF \E f \in {"coord", "main", "name"} : f \notin DOMAIN data
    THEN TRUE
    ELSE LET temp_celsius == Get(data.main, "temp")
         IN  TruthyNum(temp_celsius)
             /\ (temp_celsius < TEMP_MIN * 1000 \/ temp_celsius > TEMP_MAX * 1000)

\* --------------------------------------------------------------- transform
\* What transform_single_record gives its caller when an exception leaves it.
Raised(exc) == [py |-> "raised", exc |-> exc]

\* The first exception the mapping of transform_single_record raises, in the order
\* of its subscripts and calls, or "none".
mapping_exception(raw_data) ==
    IF "name" \notin DOMAIN raw_data THEN "KeyError"
    ELSE IF "sys" \notin DOMAIN raw_data THEN "KeyError"
    ELSE IF "country" \notin DOMAIN raw_data.sys THEN "KeyError"
    ELSE IF "lat" \notin DOMAIN raw_data.coord \/ "lon" \notin DOMAIN raw_data.coord
         THEN "KeyError"
    ELSE IF "weather" \notin DOMAIN raw_data THEN "KeyError"
    ELSE IF Len(raw_data.weather) = 0 THEN "IndexError"
    ELSE IF \E f \in {"main", "description", "icon"} : f \notin DOMAIN raw_data.weather[1]
         THEN "KeyError"
    ELSE
      LET main_data == raw_data.main
          temps == <<"temp", "feels_like", "temp_min", "temp_max">>
          bad == {k \in DOMAIN temps :
                    temps[k] \notin DOMAIN main_data \/ main_data[temps[k]] = Null}
          first == CHOOSE k \in bad : \A j \in bad : k <= j
      IN  IF bad # {}
          THEN (IF temps[first] \notin DOMAIN main_data THEN "KeyError" ELSE "TypeError")
          ELSE IF "pressure" \notin DOMAIN main_data \/ "humidity" \notin DOMAIN main_data
          THEN "KeyError"
          ELSE IF "dt" \notin DOMAIN raw_data THEN "KeyError"
          ELSE IF raw_data.dt = Null THEN "TypeError"
          ELSE "none"

\* The mapping of transform_single_record raises.
mapping_raises(raw_data) == mapping_exception(raw_data) # "none"

\* The try block of transform_single_record ends with this exception, or "none".
transform_exception(raw_data) ==
    IF validate_weather_data_raises(raw_data) THEN "ValueError"
    ELSE mapping_exception(raw_data)

\* The except clauses with "except ValueError: raise" before the generic clause.
transform_handlers_reraise_valueerror(exc) ==
    IF exc = "ValueError" THEN Raised(exc) ELSE NoneV

\* The except clauses without "except Exception".
transform_handlers_keyerror_only(exc) ==
    IF exc = "KeyError" THEN NoneV ELSE Raised(exc)

\* "except KeyError: return None" and "except Exception: return None".
transform_handlers(exc) ==
    IF exc = "KeyError" THEN NoneV ELSE NoneV

\* "weather_info = raw_data['weather'][-1]": the last entry of the list.
weather_info_last(raw_data) == raw_data.weather[Len(raw_data.weather)]

\* "weather_info = raw_data['weather'][0]": the first entry of the list.
weather_info(raw_data) == raw_data.weather[1]

transform_single_record(raw_data) ==
    IF transform_exception(raw_data) # "none"
    THEN transform_handlers(transform_exception(raw_data))
    ELSE
      LET main_data == raw_data.main
          wind_data == GetDict(raw_data, "wind")
      IN  [ city |->
              [ city_name |-> raw_data.name,
                country_code |-> raw_data.sys.country,
                latitude |-> raw_data.coord.lat,
                longitude |-> raw_data.coord.lon,
                timezone_offset |->
                    IF "timezone" \in DOMAIN raw_data THEN raw_data.timezone ELSE 0 ],
            condition |->
              [ main_condition |-> weather_info(raw_data).main,
                description |-> weather_info(raw_data).description,
                icon_code |-> weather_info(raw_data).icon ],
            measurement |->
              [ temperature_celsius |-> Round2(main_data.temp),
                feels_like_celsius |-> Round2(main_data.feels_like),
                temp_min_celsius |-> Round2(main_data.temp_min),
                temp_max_celsius |-> Round2(main_data.temp_max),
                pressure_hpa |-> main_data.pressure,
                humidity_percent |-> main_data.humidity,
                visibility_meters |-> Get(raw_data, "visibility"),
                wind_speed_mps |-> Get(wind_data, "speed"),
                wind_direction_degrees |-> Get(wind_data, "deg"),
                cloudiness_percent |-> Get(GetDict(raw_data, "clouds"), "all"),
                measurement_timestamp |-> fromtimestamp(raw_data.dt),
                api_call_timestamp |-> 0 ] ]

\* transform_multiple_records appending without "if transformed".
keep_transformed_all(transformed_records, transformed) ==
    Append(transformed_records, transformed)

\* "if transformed: transformed_records.append(transformed)".
keep_transformed(transformed_records, transformed) ==
    IF TruthyObj(transformed) THEN Append(transformed_records, transformed)
    ELSE transformed_records

RECURSIVE transform_multiple_records(_)
transform_multiple_records(raw_data_list) ==
    IF raw_data_list = <<>> THEN <<>>
    ELSE LET transformed == transform_single_record(Head(raw_data_list))
             rest == transform_multiple_records(Tail(raw_data_list))
         IN  IF TruthyObj(transformed) THEN <<transformed>> \o rest ELSE rest

\* validate_transformed_data without its humidity rule.
validate_transformed_data_temperature_only(transformed_data) ==
    IF \E s \in {"city", "condition", "measurement"} : s \notin DOMAIN transformed_data
    THEN FALSE
    ELSE IF "temperature_celsius" \notin DOMAIN transformed_data.measurement THEN FALSE
    ELSE LET temp == transformed_data.measurement.temperature_celsius
         IN  IF temp = Null THEN FALSE
             ELSE ~(temp < TEMP_MIN * 100 \/ temp > TEMP_MAX * 100)

\* validate_transformed_data: a rounded temperature is in hundredths.
validate_transformed_data(transformed_data) ==
    IF \E s \in {"city", "condition", "measurement"} : s \notin DOMAIN transformed_data
    THEN FALSE
    ELSE IF "temperature_celsius" \notin DOMAIN transformed_data.measurement THEN FALSE
    ELSE LET temp == transformed_data.measurement.temperature_celsius
         IN  IF temp = Null THEN FALSE
             ELSE IF temp < TEMP_MIN * 100 \/ temp > TEMP_MAX * 100 THEN FALSE
             ELSE IF "humidity_percent" \notin DOMAIN transformed_data.measurement THEN FALSE
             ELSE LET humidity == transformed_data.measurement.humidity_percent
                  IN  IF humidity = Null THEN FALSE
                      ELSE ~(humidity < HUMIDITY_MIN \/ humidity > HUMIDITY_MAX)

\* ------------------------------------------------------------------ config
\* Config.CITIES, in order.
CITIES ==
    << [name |-> "London", country |-> "GB"],
       [name |-> "New York", country |-> "US"],
       [name |-> "Tokyo", country |-> "JP"],
       [name |-> "Paris", country |-> "FR"],
       [name |-> "Sydney", country |-> "AU"],
       [name |-> "Mumbai", country |-> "IN"],
       [name |-> "Dubai", country |-> "AE"],
       [name |-> "Singapore", country |-> "SG"],
       [name |-> "Toronto", country |-> "CA"],
       [name |-> "Berlin", country |-> "DE"] >>

\* The cities of a run: the first MaxCities entries of Config.CITIES.
ConfiguredCities == SubSeq(CITIES, 1, MaxCities)

\* ------------------------------------------------- the weather API's answers
Clear == [id |-> 800, main |-> "Clear", description |-> "clear sky", icon |-> "01d"]
ClearNight == [id |-> 800, main |-> "Clear", description |-> "clear sky", icon |-> "01n"]
Rain == [id |-> 500, main |-> "Rain", description |-> "light rain", icon |-> "10d"]

\* A complete provider record for city c (tests/conftest.py, sample_raw_weather_data).
RawRecord(c, lat, temp, humidity, dt, weather) ==
    [ coord |-> [lon |-> 0, lat |-> lat],
      weather |-> weather,
      main |-> [ temp |-> temp, feels_like |-> temp - 1300, temp_min |-> temp - 2500,
                 temp_max |-> temp + 1500, pressure |-> 1013, humidity |-> humidity ],
      visibility |-> 10000,
      wind |-> [speed |-> 3500, deg |-> 180],
      clouds |-> [all |-> 20],
      dt |-> dt,
      sys |-> [country |-> c.country],
      timezone |-> 0,
      name |-> c.name ]

Good(c) == RawRecord(c, 51, 15500, 65, 1, <<Clear>>)
\* Same city and dt as Good, other coordinates, measurements and condition.
Alt(c) == RawRecord(c, 52, 17999, 70, 1, <<Rain, Clear>>)
\* Same city, dt and condition key as Good, another icon and other optional groups.
Night(c) == Without(Without(RawRecord(c, 51, 12000, 80, 1, <<ClearNight>>), "wind"), "timezone")
\* Humidity out of range, temperature in range.
Humid(c) == RawRecord(c, 51, 15500, 150, 2, <<Clear>>)
\* Temperature just above the range.
Hot(c) == RawRecord(c, 51, 60001, 65, 2, <<Clear>>)
\* No main block.
NoMain(c) == Without(Good(c), "main")

\* The JSON bodies the API may answer a query for city c with.
ApiBodies(c) == {Good(c), Humid(c), Hot(c), NoMain(c)}

\* How one requests.get (with raise_for_status and json) may end.
\*   ok: a 200 with a JSON body;  empty: a 200 whose body is {};
\*   http401/http404/http500: raise_for_status raises HTTPError;
\*   timeout: requests.exceptions.Timeout;
\*   connection_error: requests.exceptions.ConnectionError (no timeout);
\*   request_exception: another RequestException;
\*   other_exception: an exception that is no RequestException.
HttpErrors == {"http401", "http404", "http500"}
GetOutcomes ==
    {"ok", "empty", "timeout", "connection_error", "request_exception", "other_exception"}
        \cup HttpErrors

\* ------------------------------------------- raw records given to transform
\* The dict d without the keys in fields.
Drop(d, fields) == [f \in DOMAIN d \ fields |-> d[f]]
\* The fields validate_weather_data requires.
RequiredFields == {"coord", "main", "name"}
\* Raw temperatures (thousandths) around the two limits, zero and null.
EdgeTemps == {-100001, -100000, -99996, 0, 59996, 60000, 60001, 60006, Null}
SetTemp(raw, t) == [raw EXCEPT !.main = With(@, "temp", t)]

\* Raw records lacking one or more of the required fields.
LackingRequired(c) ==
    {Drop(b, F) : b \in {Good(c), Hot(c)}, F \in (SUBSET RequiredFields) \ {{}}}
\* Raw records with every required field whose mapping fails somewhere.
Unmappable(c) ==
    { [Good(c) EXCEPT !.weather = <<>>],
      [Good(c) EXCEPT !.weather = <<Without(Clear, "icon")>>],
      Without(Good(c), "weather"),
      Without(Good(c), "sys"),
      [Good(c) EXCEPT !.sys = EmptyDict],
      Without(Good(c), "dt"),
      [Good(c) EXCEPT !.dt = Null],
      [Good(c) EXCEPT !.coord = Without(@, "lat")],
      [Good(c) EXCEPT !.main = Without(@, "humidity")],
      [Good(c) EXCEPT !.main = Without(@, "temp")],
      [Good(c) EXCEPT !.main = With(@, "temp_max", Null)] }
\* The groups transform_single_record reads with get().
OptionalGroups == {"visibility", "wind", "clouds", "timezone"}
\* Good without one of the optional groups, and without all of them.
LackingOptional(c) ==
    {Without(Good(c), f) : f \in OptionalGroups} \cup {Drop(Good(c), OptionalGroups)}
\* The temperatures of test_transform_temperature_rounding: 15.556, 14.777, 13.333
\* and 17.999.
Rounding(c) ==
    [Good(c) EXCEPT !.main = [ temp |-> 15556, feels_like |-> 14777, temp_min |-> 13333,
                               temp_max |-> 17999, pressure |-> 1013, humidity |-> 65 ]]
\* The raw records transform is given for city c.
RawInputs(c) ==
    {Good(c), Alt(c), Night(c), Humid(c), EmptyDict, Rounding(c)}
        \cup LackingOptional(c)
        \cup {SetTemp(Good(c), t) : t \in EdgeTemps}
        \cup LackingRequired(c)
        \cup Unmappable(c)

\* ------------------------------------------------------------------- state
VARIABLES
    store,   \* the relational store: cities, weather_conditions, weather_measurements
    ext,     \* the WeatherExtractor inside fetch_weather_for_cities
    loader,  \* the WeatherLoaders (one per process), inside load_multiple_records
    pipe,    \* run_etl_pipeline
    tf,      \* the transformer inside transform_multiple_records
    ev       \* the last completed operation, with the store it started from

vars == <<store, ext, loader, pipe, tf, ev>>

Loaders == {1, 2}

\* ------------------------------------------------------------- transformer
\* transform_multiple_records(raw_data_list) on entry: the loop has not started.
StartTransform(raw_data_list) ==
    [ pc |-> IF raw_data_list = <<>> THEN "returned" ELSE "loop",
      raw_data_list |-> raw_data_list,
      i |-> 1,
      transformed_records |-> <<>>,
      outs |-> <<>> ]  \* what transform_single_record gave for each record so far

TfOff == [StartTransform(<<>>) EXCEPT !.pc = "off"]

\* One iteration of the loop of transform_multiple_records.
TransformRecord ==
    /\ tf.pc = "loop"
    /\ LET raw_data == tf.raw_data_list[tf.i]
           transformed == transform_single_record(raw_data)
       IN  tf' =
             IF transformed # NoneV /\ DOMAIN transformed = {"py", "exc"}
             THEN \* an exception left transform_single_record and leaves the loop
                  [tf EXCEPT !.pc = "raised", !.outs = Append(@, transformed)]
             ELSE [tf EXCEPT !.i = @ + 1,
                             !.outs = Append(@, transformed),
                             !.transformed_records = keep_transformed(@, transformed),
                             !.pc = IF tf.i + 1 > Len(tf.raw_data_list)
                                    THEN "returned" ELSE "loop"]
    /\ ev' = [op |-> "transform", r |-> 0]
    /\ UNCHANGED <<store, ext, loader, pipe>>

\* validate_transformed_data called on a normalized record or a part of one.
ValidateTemps == {-10001, -10000, -9900, 0, 1550, 5900, 6000, 6001, 15000, Null}
ValidateHumidities == {-10, -1, 0, 65, 100, 101, 150, Null}
Sections == {"city", "condition", "measurement"}
\* The normalized record of Good with the given temperature (hundredths) and humidity.
Normalized(temp, humidity) ==
    [transform_single_record(Good(CITIES[1])) EXCEPT
        !.measurement = With(With(@, "temperature_celsius", temp),
                             "humidity_percent", humidity)]
ValidateInputs ==
    {Drop(Normalized(t, h), F) :
        t \in ValidateTemps, h \in ValidateHumidities,
        F \in {{}} \cup {{x} : x \in Sections}}
      \cup {[Normalized(1550, 65) EXCEPT !.measurement = Without(@, f)] :
              f \in {"temperature_celsius", "humidity_percent"}}

\* One call of validate_transformed_data.
ValidateRecord ==
    /\ tf.pc = "off"
    /\ pipe.pc = "off"
    /\ \E transformed_data \in ValidateInputs :
         ev' = [op |-> "validate_transformed_data", r |-> 0, data |-> transformed_data,
                ret |-> validate_transformed_data(transformed_data)]
    /\ UNCHANGED <<store, ext, loader, pipe, tf>>

\* ----------------------------------------------------------------- extract
\* fetch_weather_by_city with "except Timeout" returning None like the other handlers.
fetch_weather_by_city_swallow_timeout(o, body) ==
    IF o = "ok" THEN [kind |-> "return", data |-> body, exc |-> "none"]
    ELSE IF o = "empty" THEN [kind |-> "return", data |-> EmptyDict, exc |-> "none"]
    ELSE IF o = "other_exception" THEN [kind |-> "raise", data |-> NoneV, exc |-> o]
    ELSE [kind |-> "return", data |-> NoneV, exc |-> "none"]

\* fetch_weather_by_city without its "except HTTPError" clause.
fetch_weather_by_city_raise_http(o, body) ==
    IF o = "ok" THEN [kind |-> "return", data |-> body, exc |-> "none"]
    ELSE IF o = "empty" THEN [kind |-> "return", data |-> EmptyDict, exc |-> "none"]
    ELSE IF o \in {"connection_error", "request_exception"}
         THEN [kind |-> "return", data |-> NoneV, exc |-> "none"]
    ELSE [kind |-> "raise", data |-> NoneV, exc |-> o]

\* The body of fetch_weather_by_city for one requests.get ending in outcome o
\* (body: the JSON of a 200): what the undecorated function returns or raises.
fetch_weather_by_city(o, body) ==
    IF o = "ok" THEN [kind |-> "return", data |-> body, exc |-> "none"]
    ELSE IF o = "empty" THEN [kind |-> "return", data |-> EmptyDict, exc |-> "none"]
    ELSE IF o \in HttpErrors THEN [kind |-> "return", data |-> NoneV, exc |-> "none"]
    ELSE IF o = "timeout" THEN [kind |-> "raise", data |-> NoneV, exc |-> o]
    ELSE IF o \in {"connection_error", "request_exception"}
         THEN [kind |-> "return", data |-> NoneV, exc |-> "none"]
    ELSE [kind |-> "raise", data |-> NoneV, exc |-> o]

\* retry_on_failure looping over range(max_retries + 1).
retry_on_failure_one_more(attempt, res) ==
    IF res.kind = "return" THEN [next |-> "return", data |-> res.data, exc |-> "none"]
    ELSE IF attempt = MAX_RETRIES THEN [next |-> "raise", data |-> NoneV, exc |-> res.exc]
    ELSE [next |-> "retry", data |-> NoneV, exc |-> "none"]

\* retry_on_failure giving up at "attempt == max_retries - 2".
retry_on_failure_one_less(attempt, res) ==
    IF res.kind = "return" THEN [next |-> "return", data |-> res.data, exc |-> "none"]
    ELSE IF attempt >= MAX_RETRIES - 2 THEN [next |-> "raise", data |-> NoneV, exc |-> res.exc]
    ELSE [next |-> "retry", data |-> NoneV, exc |-> "none"]

\* retry_on_failure looping over range(2 * max_retries).
retry_on_failure_twice_as_many(attempt, res) ==
    IF res.kind = "return" THEN [next |-> "return", data |-> res.data, exc |-> "none"]
    ELSE IF attempt = 2 * MAX_RETRIES - 1
         THEN [next |-> "raise", data |-> NoneV, exc |-> res.exc]
    ELSE [next |-> "retry", data |-> NoneV, exc |-> "none"]

\* One iteration of the wrapper's loop, for attempt (0-based) whose call ended in
\* res: the wrapper returns, re-raises, or sleeps and goes on to the next attempt.
retry_on_failure(attempt, res) ==
    IF res.kind = "return" THEN [next |-> "return", data |-> res.data, exc |-> "none"]
    ELSE IF attempt = MAX_RETRIES - 1 THEN [next |-> "raise", data |-> NoneV, exc |-> res.exc]
    ELSE [next |-> "retry", data |-> NoneV, exc |-> "none"]

\* fetch_weather_for_cities appending without "if data".
collect_all(weather_data, data) == Append(weather_data, data)

\* "if data: weather_data.append(data)" of fetch_weather_for_cities.
collect(weather_data, data) ==
    IF TruthyObj(data) THEN Append(weather_data, data) ELSE weather_data

\* A city entry is a dict; a malformed one (None) has no get().
WellFormed(city) == city # NoneV

\* The name f"...{city_name}" reads when no assignment has bound it.
Unbound == "<unbound>"

\* fetch_weather_for_cities(cities) on entry: the loop has not started.
StartFetch(cities) ==
    [ pc |-> IF cities = <<>> THEN "returned" ELSE "call",
      cities |-> cities,
      i |-> 1,
      attempt |-> 0,
      weather_data |-> <<>>,
      city_name |-> Unbound,
      gets |-> 0,     \* the requests.get calls issued so far
      outs |-> <<>>,  \* the requests.get calls of the current city so far, with how each ended
      log |-> <<>> ]  \* per city entry handled: its requests.get calls and how its fetch ended

ExtIdle == [StartFetch(<<>>) EXCEPT !.pc = "idle"]

\* fetch_weather_for_cities with "return weather_data" inside its for loop.
NextCity_return_in_loop(e, entry, wd, name) ==
    [ e EXCEPT !.i = e.i + 1,
               !.attempt = 0,
               !.weather_data = wd,
               !.city_name = name,
               !.outs = <<>>,
               !.log = Append(e.log, entry),
               !.pc = "returned" ]

\* The loop of fetch_weather_for_cities moves to the next city, or returns.
NextCity(e, entry, wd, name) ==
    [ e EXCEPT !.i = e.i + 1,
               !.attempt = 0,
               !.weather_data = wd,
               !.city_name = name,
               !.outs = <<>>,
               !.log = Append(e.log, entry),
               !.pc = IF e.i + 1 > Len(e.cities) THEN "returned" ELSE "call" ]

\* One requests.get of the retry-wrapped fetch_weather_by_city for the current city,
\* and everything up to the next requests.get.
FetchAttempt ==
    /\ ext.pc = "call"
    /\ WellFormed(ext.cities[ext.i])
    /\ \E o \in GetOutcomes :
       \E body \in IF o = "ok" THEN ApiBodies(ext.cities[ext.i]) ELSE {NoneV} :
         LET city == ext.cities[ext.i]
             res == fetch_weather_by_city(o, body)
             w == retry_on_failure(ext.attempt, res)
             outs == Append(ext.outs, [o |-> o, body |-> body])
         IN  ext' =
               IF w.next = "retry"
               THEN [ext EXCEPT !.attempt = ext.attempt + 1, !.outs = outs,
                                !.city_name = city.name, !.gets = ext.gets + 1]
               ELSE IF w.next = "return"
               THEN NextCity([ext EXCEPT !.gets = ext.gets + 1],
                             [city |-> city, outs |-> outs, ret |-> "return",
                              data |-> w.data, exc |-> "none"],
                             collect(ext.weather_data, w.data), city.name)
               ELSE NextCity([ext EXCEPT !.gets = ext.gets + 1],
                             [city |-> city, outs |-> outs, ret |-> "raise",
                              data |-> NoneV, exc |-> w.exc],
                             ext.weather_data, city.name)
    /\ ev' = [op |-> "fetch", r |-> 0]
    /\ UNCHANGED <<store, loader, pipe, tf>>

\* city.get("name") on a malformed entry raises inside the try; the handler formats
\* city_name, which is unbound when no earlier entry has assigned it.
FetchMalformed ==
    /\ ext.pc = "call"
    /\ ~WellFormed(ext.cities[ext.i])
    /\ LET entry == [city |-> NoneV, outs |-> <<>>, ret |-> "malformed", data |-> NoneV,
                     exc |-> "AttributeError"]
       IN  ext' =
             IF ext.city_name = Unbound
             THEN [ext EXCEPT !.pc = "raised", !.log = Append(ext.log, entry)]
             ELSE NextCity(ext, entry, ext.weather_data, ext.city_name)
    /\ ev' = [op |-> "fetch", r |-> 0]
    /\ UNCHANGED <<store, loader, pipe, tf>>

\* ------------------------------------------------------------------- store
\* result.fetchone(): the first row of a result, or None.
First(table, hits) == IF hits = {} THEN NoneV ELSE table[CHOOSE i \in hits : \A j \in hits : i <= j]

\* A WHERE clause of load_city that also compares the coordinates.
SameCity_with_coordinates(row, city_data) ==
    /\ row.city_name = city_data.city_name
    /\ row.country_code = city_data.country_code
    /\ row.latitude = city_data.latitude
    /\ row.longitude = city_data.longitude

\* The WHERE clause of load_city's SELECT.
SameCity(row, city_data) ==
    row.city_name = city_data.city_name /\ row.country_code = city_data.country_code
SameCondition(row, condition_data) ==
    /\ row.main_condition = condition_data.main_condition
    /\ row.description = condition_data.description
SameMeasurement(row, city_id, measurement_timestamp) ==
    row.city_id = city_id /\ row.measurement_timestamp = measurement_timestamp

\* load_city's SELECT with a WHERE clause that matches no row.
select_city_miss(cities, city_data) == NoneV

\* SELECT city_id FROM weather.cities WHERE city_name = ... AND country_code = ...
select_city(cities, city_data) ==
    First(cities, {i \in DOMAIN cities : SameCity(cities[i], city_data)})
\* The unique constraint of weather.cities on (city_name, country_code).
cities_unique_violation(cities, city_data) ==
    \E i \in DOMAIN cities : SameCity(cities[i], city_data)
\* INSERT INTO weather.cities (...) VALUES (...) RETURNING city_id, committed.
insert_city(cities, city_data) ==
    Append(cities, With(city_data, "city_id", Len(cities) + 1))

\* load_weather_condition's SELECT with a WHERE clause that matches no row.
select_condition_miss(conditions, condition_data) == NoneV

\* SELECT condition_id FROM weather.weather_conditions WHERE main_condition = ...
select_condition(conditions, condition_data) ==
    First(conditions, {i \in DOMAIN conditions : SameCondition(conditions[i], condition_data)})
\* The unique constraint of weather.weather_conditions on (main_condition, description).
conditions_unique_violation(conditions, condition_data) ==
    \E i \in DOMAIN conditions : SameCondition(conditions[i], condition_data)
\* INSERT INTO weather.weather_conditions (...) VALUES (...) RETURNING condition_id.
insert_condition(conditions, condition_data) ==
    Append(conditions, With(condition_data, "condition_id", Len(conditions) + 1))

\* data = {city_id, condition_id, **measurement_data}; data.pop('api_call_timestamp').
measurement_row(measurement_data, city_id, condition_id) ==
    Without(With(With(measurement_data, "city_id", city_id), "condition_id", condition_id),
            "api_call_timestamp")
\* A conflict target of (city_id, condition_id, measurement_timestamp).
measurement_conflict_with_condition(measurements, row) ==
    \E i \in DOMAIN measurements :
        /\ SameMeasurement(measurements[i], row.city_id, row.measurement_timestamp)
        /\ measurements[i].condition_id = row.condition_id

\* ON CONFLICT (city_id, measurement_timestamp): a row with the new row's key exists.
measurement_conflict(measurements, row) ==
    \E i \in DOMAIN measurements :
        SameMeasurement(measurements[i], row.city_id, row.measurement_timestamp)
\* load_measurement's INSERT without a conflict clause, on a table without the key.
insert_measurement_plain(measurements, row) == Append(measurements, row)

\* INSERT INTO weather.weather_measurements (...) ON CONFLICT (...) DO NOTHING, committed.
insert_measurement(measurements, row) ==
    IF measurement_conflict(measurements, row) THEN measurements
    ELSE Append(measurements, row)

EmptyStore == [cities |-> <<>>, weather_conditions |-> <<>>, weather_measurements |-> <<>>]

\* ------------------------------------------------------------------ loader
\* load_multiple_records(transformed_data_list) on entry, in its pass-th call.
StartLoad(transformed_data_list, pass, faults, prev_ok, city_calls, cond_calls) ==
    [ pc |-> IF transformed_data_list = <<>> THEN "done" ELSE "city_select",
      list |-> transformed_data_list,
      i |-> 1,
      city_id |-> Null,
      condition_id |-> Null,
      success_count |-> 0,
      failure_count |-> 0,
      pass |-> pass,
      faults |-> faults,
      pass_faults |-> 0,
      prev_ok |-> prev_ok,
      city_calls |-> city_calls,
      cond_calls |-> cond_calls,
      calls |-> <<>>,  \* the calls load_weather_record made for the current record
      done |-> <<>> ]  \* per record finished in this call: its calls and its result

LoaderOff == [StartLoad(<<>>, 1, 0, FALSE, <<>>, <<>>) EXCEPT !.pc = "off"]

\* The last two calls of an upsert, oldest first.
Push2(calls, c) == IF Len(calls) < 2 THEN Append(calls, c) ELSE <<calls[2], c>>

\* load_multiple_records returning at the first record that fails to load.
RecordDone_stop_on_failure(l, ok) ==
    [ l EXCEPT !.success_count = IF ok THEN @ + 1 ELSE @,
               !.failure_count = IF ok THEN @ ELSE @ + 1,
               !.i = @ + 1,
               !.city_id = Null,
               !.condition_id = Null,
               !.calls = <<>>,
               !.done = Append(@, [index |-> l.i, calls |-> l.calls, result |-> ok]),
               !.pc = IF l.i + 1 > Len(l.list) \/ ~ok THEN "done" ELSE "city_select" ]

\* load_weather_record returned ok: the tally of load_multiple_records, then the
\* next record of its loop or its return.
RecordDone(l, ok) ==
    [ l EXCEPT !.success_count = IF ok THEN @ + 1 ELSE @,
               !.failure_count = IF ok THEN @ ELSE @ + 1,
               !.i = @ + 1,
               !.city_id = Null,
               !.condition_id = Null,
               !.calls = <<>>,
               !.done = Append(@, [index |-> l.i, calls |-> l.calls, result |-> ok]),
               !.pc = IF l.i + 1 > Len(l.list) THEN "done" ELSE "city_select" ]

\* The dict load_multiple_records returns.
load_result(l) ==
    [success |-> l.success_count, failure |-> l.failure_count, total |-> Len(l.list)]

\* load_weather_record called op, which returned ret.
Called(l, op, ret) == [l EXCEPT !.calls = Append(@, [op |-> op, ret |-> ret])]

\* A statement may fail on the data layer (SQLAlchemyError: connectivity loss).
DbFaults == loader[1].faults + loader[2].faults
MayFail(l) == IF DbFaults < MaxDbFaults THEN {FALSE, TRUE} ELSE {FALSE}
Faulted(l) == [l EXCEPT !.faults = @ + 1, !.pass_faults = @ + 1]

\* load_weather_record without "if not city_id: return False".
AfterLoadCity_no_short_circuit(l, city_id, err) ==
    LET l2 == [Called(l, "load_city", city_id) EXCEPT !.city_calls =
                 Push2(@, [key |-> <<l.list[l.i].city.city_name,
                                     l.list[l.i].city.country_code>>,
                           ret |-> city_id, err |-> err])]
    IN  [l2 EXCEPT !.city_id = city_id, !.pc = "cond_select"]

\* load_city returned city_id to load_weather_record ("if not city_id: return False").
AfterLoadCity(l, city_id, err) ==
    LET l2 == [Called(l, "load_city", city_id) EXCEPT !.city_calls =
                 Push2(@, [key |-> <<l.list[l.i].city.city_name,
                                     l.list[l.i].city.country_code>>,
                           ret |-> city_id, err |-> err])]
    IN  IF ~TruthyNum(city_id) THEN RecordDone(l2, FALSE)
        ELSE [l2 EXCEPT !.city_id = city_id, !.pc = "cond_select"]

\* load_weather_record without "if not condition_id: return False".
AfterLoadCondition_no_short_circuit(l, condition_id, err) ==
    LET l2 == [Called(l, "load_weather_condition", condition_id) EXCEPT !.cond_calls =
                 Push2(@, [key |-> <<l.list[l.i].condition.main_condition,
                                     l.list[l.i].condition.description>>,
                           ret |-> condition_id, err |-> err])]
    IN  [l2 EXCEPT !.condition_id = condition_id, !.pc = "meas_insert"]

\* load_weather_condition returned condition_id ("if not condition_id: return False").
AfterLoadCondition(l, condition_id, err) ==
    LET l2 == [Called(l, "load_weather_condition", condition_id) EXCEPT !.cond_calls =
                 Push2(@, [key |-> <<l.list[l.i].condition.main_condition,
                                     l.list[l.i].condition.description>>,
                           ret |-> condition_id, err |-> err])]
    IN  IF ~TruthyNum(condition_id) THEN RecordDone(l2, FALSE)
        ELSE [l2 EXCEPT !.condition_id = condition_id, !.pc = "meas_insert"]

\* load_weather_record ending with "return True" instead of "return success".
AfterLoadMeasurement_return_true(l, success) ==
    RecordDone(Called(l, "load_measurement", success), TRUE)

\* load_measurement returned success, which load_weather_record returns.
AfterLoadMeasurement(l, success) ==
    RecordDone(Called(l, "load_measurement", success), success)

\* load_weather_record as one transaction: a failed statement also removes the rows
\* the identifiers of this call refer to.
failed_statement_rolls_back_call(l, st) ==
    [st EXCEPT !.cities = SelectSeq(@, LAMBDA row : row.city_id # l.city_id),
               !.weather_conditions =
                   SelectSeq(@, LAMBDA row : row.condition_id # l.condition_id)]

\* The store after a statement of loader l raised: each of load_city,
\* load_weather_condition and load_measurement works in its own
\* "with self.engine.connect() as conn" and commits there, so leaving the block on an
\* exception discards that statement's work only; what earlier steps committed stays.
failed_statement(l, st) == st

Event(op, r, data, ret, err) ==
    [op |-> op, r |-> r, data |-> data, ret |-> ret, err |-> err, before |-> store]

\* load_city, from its SELECT to "if row: return row[0]".
LoadCitySelect(r) ==
    LET l == loader[r]
        city_data == l.list[l.i].city
    IN  /\ l.pc = "city_select"
        /\ \E fail \in MayFail(l) :
             IF fail
             THEN /\ loader' = [loader EXCEPT ![r] = AfterLoadCity(Faulted(l), Null, "fault")]
                  /\ ev' = Event("load_city", r, city_data, Null, "fault")
                  /\ store' = failed_statement(l, store)
             ELSE LET row == select_city(store.cities, city_data)
                  IN  /\ IF row # NoneV
                         THEN /\ loader' = [loader EXCEPT ![r] =
                                              AfterLoadCity(l, row.city_id, "none")]
                              /\ ev' = Event("load_city", r, city_data, row.city_id, "none")
                         ELSE /\ loader' = [loader EXCEPT ![r].pc = "city_insert"]
                              /\ ev' = Event("select_city", r, city_data, Null, "none")
                      /\ store' = store
        /\ UNCHANGED <<ext, pipe, tf>>

\* load_city, its INSERT ... RETURNING and commit.
LoadCityInsert(r) ==
    LET l == loader[r]
        city_data == l.list[l.i].city
    IN  /\ l.pc = "city_insert"
        /\ \E fail \in MayFail(l) :
             IF fail
             THEN /\ loader' = [loader EXCEPT ![r] = AfterLoadCity(Faulted(l), Null, "fault")]
                  /\ ev' = Event("load_city", r, city_data, Null, "fault")
                  /\ store' = failed_statement(l, store)
             ELSE IF cities_unique_violation(store.cities, city_data)
             THEN /\ loader' = [loader EXCEPT ![r] = AfterLoadCity(l, Null, "unique")]
                  /\ ev' = Event("load_city", r, city_data, Null, "unique")
                  /\ store' = failed_statement(l, store)
             ELSE LET cities == insert_city(store.cities, city_data)
                      city_id == cities[Len(cities)].city_id
                  IN  /\ store' = [store EXCEPT !.cities = cities]
                      /\ loader' = [loader EXCEPT ![r] = AfterLoadCity(l, city_id, "none")]
                      /\ ev' = Event("load_city", r, city_data, city_id, "none")
        /\ UNCHANGED <<ext, pipe, tf>>

\* load_weather_condition, from its SELECT to "if row: return row[0]".
LoadConditionSelect(r) ==
    LET l == loader[r]
        condition_data == l.list[l.i].condition
    IN  /\ l.pc = "cond_select"
        /\ \E fail \in MayFail(l) :
             IF fail
             THEN /\ loader' = [loader EXCEPT ![r] =
                                  AfterLoadCondition(Faulted(l), Null, "fault")]
                  /\ ev' = Event("load_weather_condition", r, condition_data, Null, "fault")
                  /\ store' = failed_statement(l, store)
             ELSE LET row == select_condition(store.weather_conditions, condition_data)
                  IN  /\ IF row # NoneV
                         THEN /\ loader' = [loader EXCEPT ![r] =
                                              AfterLoadCondition(l, row.condition_id, "none")]
                              /\ ev' = Event("load_weather_condition", r, condition_data,
                                             row.condition_id, "none")
                         ELSE /\ loader' = [loader EXCEPT ![r].pc = "cond_insert"]
                              /\ ev' = Event("select_condition", r, condition_data, Null,
                                             "none")
                      /\ store' = store
        /\ UNCHANGED <<ext, pipe, tf>>

\* load_weather_condition, its INSERT ... RETURNING and commit.
LoadConditionInsert(r) ==
    LET l == loader[r]
        condition_data == l.list[l.i].condition
    IN  /\ l.pc = "cond_insert"
        /\ \E fail \in MayFail(l) :
             IF fail
             THEN /\ loader' = [loader EXCEPT ![r] =
                                  AfterLoadCondition(Faulted(l), Null, "fault")]
                  /\ ev' = Event("load_weather_condition", r, condition_data, Null, "fault")
                  /\ store' = failed_statement(l, store)
             ELSE IF conditions_unique_violation(store.weather_conditions, condition_data)
             THEN /\ loader' = [loader EXCEPT ![r] = AfterLoadCondition(l, Null, "unique")]
                  /\ ev' = Event("load_weather_condition", r, condition_data, Null, "unique")
                  /\ store' = failed_statement(l, store)
             ELSE LET conditions == insert_condition(store.weather_conditions, condition_data)
                      condition_id == conditions[Len(conditions)].condition_id
                  IN  /\ store' = [store EXCEPT !.weather_conditions = conditions]
                      /\ loader' = [loader EXCEPT ![r] =
                                      AfterLoadCondition(l, condition_id, "none")]
                      /\ ev' = Event("load_weather_condition", r, condition_data,
                                     condition_id, "none")
        /\ UNCHANGED <<ext, pipe, tf>>

\* load_measurement: the INSERT ... ON CONFLICT DO NOTHING and commit; its result
\* is the result of load_weather_record.
LoadMeasurement(r) ==
    LET l == loader[r]
        row == measurement_row(l.list[l.i].measurement, l.city_id, l.condition_id)
    IN  /\ l.pc = "meas_insert"
        /\ \E fail \in MayFail(l) :
             IF fail
             THEN /\ loader' = [loader EXCEPT ![r] =
                                  AfterLoadMeasurement(Faulted(l), FALSE)]
                  /\ ev' = Event("load_measurement", r, row, FALSE, "fault")
                  /\ store' = failed_statement(l, store)
             ELSE /\ store' = [store EXCEPT !.weather_measurements =
                                  insert_measurement(@, row)]
                  /\ loader' = [loader EXCEPT ![r] = AfterLoadMeasurement(l, TRUE)]
                  /\ ev' = Event("load_measurement", r, row, TRUE, "none")
        /\ UNCHANGED <<ext, pipe, tf>>

\* The same process calls load_multiple_records again with the same list (a re-run
\* of the load against the store the earlier runs left), once no run is in progress.
Reload(r) ==
    LET l == loader[r]
    IN  /\ \A q \in Loaders : loader[q].pc = "done"
        /\ pipe.pc = "off"
        /\ l.list # <<>>
        /\ l.pass < MaxPasses
        /\ loader' = [loader EXCEPT ![r] =
                        StartLoad(l.list, l.pass + 1, l.faults,
                                  l.success_count = Len(l.list), l.city_calls, l.cond_calls)]
        /\ ev' = Event("reload", r, NoneV, Null, "none")
        /\ UNCHANGED <<store, ext, pipe, tf>>

LoaderStep(r) ==
    \/ LoadCitySelect(r)
    \/ LoadCityInsert(r)
    \/ LoadConditionSelect(r)
    \/ LoadConditionInsert(r)
    \/ LoadMeasurement(r)

\* ---------------------------------------------------------------- pipeline
LoaderReady == [LoaderOff EXCEPT !.pc = "ready"]

\* The environment of a run: whether OPENWEATHER_API_KEY and DB_PASSWORD are set,
\* whether create_engine succeeds and whether the database answers SELECT 1.
Environments ==
    [api_key : BOOLEAN, db_password : BOOLEAN, engine : BOOLEAN, connection : BOOLEAN]
NoEnv == [api_key |-> TRUE, db_password |-> TRUE, engine |-> TRUE, connection |-> TRUE]

\* run_etl_pipeline before it is called (pc "off": not used) or on entry ("start").
PipeAt(pc) == [pc |-> pc, result |-> "none", env |-> NoEnv, exit |-> Null]

\* "return True" / "return False" of run_etl_pipeline.
Returned(result) == [pipe EXCEPT !.pc = "done", !.result = result]

\* Config.validate raises ValueError.
Config_validate_raises(env) == ~env.api_key \/ ~env.db_password

\* run_etl_pipeline without its "if not loader.test_connection()" check.
startup_without_connection_test(env) ==
    IF Config_validate_raises(env) THEN "config"
    ELSE IF ~env.engine THEN "engine"
    ELSE "ok"

\* How run_etl_pipeline gets to "All components initialized": Config.validate
\* raises ("config"), create_engine raises in WeatherLoader.__init__ ("engine"),
\* test_connection returns False ("connection"), or none of these ("ok").
startup(env) ==
    IF Config_validate_raises(env) THEN "config"
    ELSE IF ~env.engine THEN "engine"
    ELSE IF ~env.connection THEN "connection"
    ELSE "ok"

\* run_etl_pipeline up to the call of fetch_weather_for_cities: Config.validate, the
\* three constructors and loader.test_connection().
PipelineStart ==
    /\ pipe.pc = "start"
    /\ \E env \in Environments :
         LET p == [pipe EXCEPT !.env = env]
             how == startup(env)
         IN  IF how \in {"config", "engine"}
             THEN \* an exception, caught by the run's except clause: "return False"
                  /\ pipe' = [p EXCEPT !.pc = "done", !.result = "FAILURE"]
                  /\ UNCHANGED <<ext, loader>>
             ELSE IF how = "connection"
             THEN \* "return False", without loader.close()
                  /\ pipe' = [p EXCEPT !.pc = "done", !.result = "FAILURE"]
                  /\ loader' = [loader EXCEPT ![1] = LoaderReady]
                  /\ UNCHANGED ext
             ELSE /\ pipe' = [p EXCEPT !.pc = "extract"]
                  /\ loader' = [loader EXCEPT ![1] = LoaderReady]
                  /\ ext' = StartFetch(ConfiguredCities)
    /\ ev' = [op |-> "pipeline", r |-> 0]
    /\ UNCHANGED <<store, tf>>

\* "if not raw_data_list" of run_etl_pipeline.
no_data_extracted(raw_data_list) == raw_data_list = <<>>

\* run_etl_pipeline without its "if not transformed_data_list" check.
no_data_transformed_unchecked(transformed_data_list) == FALSE

\* "if not transformed_data_list" of run_etl_pipeline.
no_data_transformed(transformed_data_list) == transformed_data_list = <<>>

\* run_etl_pipeline from the return of fetch_weather_for_cities to the call of
\* load_multiple_records: the two emptiness checks around transform_multiple_records.
PipelineTransform ==
    /\ pipe.pc = "extract"
    /\ ext.pc \in {"returned", "raised"}
    /\ LET raw_data_list == ext.weather_data
           transformed_data_list == transform_multiple_records(raw_data_list)
       IN  IF \/ ext.pc = "raised"
              \/ no_data_extracted(raw_data_list)
              \/ no_data_transformed(transformed_data_list)
           THEN /\ pipe' = Returned("FAILURE")
                /\ UNCHANGED loader
           ELSE /\ pipe' = [pipe EXCEPT !.pc = "load"]
                /\ loader' = [loader EXCEPT ![1] =
                                StartLoad(transformed_data_list, 1, 0, FALSE, <<>>, <<>>)]
    /\ ext' = [ext EXCEPT !.log = <<>>]  \* the per-city history ends with the call
    /\ ev' = [op |-> "pipeline", r |-> 0]
    /\ UNCHANGED <<store, tf>>

\* run_etl_pipeline returning False when no record was loaded.
pipeline_result_needs_a_success(result) ==
    IF result.success = 0 THEN "FAILURE" ELSE "SUCCESS"

\* What run_etl_pipeline returns once load_multiple_records returned result: the
\* summary is logged and "return True" follows, whatever the counts.
pipeline_result(result) == "SUCCESS"

\* run_etl_pipeline after load_multiple_records returned: the summary,
\* loader.close() and "return True".
PipelineFinish ==
    /\ pipe.pc = "load"
    /\ loader[1].pc = "done"
    /\ pipe' = Returned(pipeline_result(load_result(loader[1])))
    /\ loader' = [loader EXCEPT ![1].pc = "closed"]
    /\ ev' = [op |-> "pipeline", r |-> 0]
    /\ UNCHANGED <<store, ext, tf>>

\* The exit status of the script for the value run_etl_pipeline returned: the
\* __main__ block prints one of two messages and ends, without sys.exit.
exit_status(result) == 0

\* The __main__ block after run_etl_pipeline returned: the process ends.
ProcessExit ==
    /\ pipe.pc = "done"
    /\ pipe' = [pipe EXCEPT !.pc = "exited", !.exit = exit_status(pipe.result)]
    /\ ev' = [op |-> "pipeline", r |-> 0]
    /\ UNCHANGED <<store, ext, loader, tf>>

\* ---------------------------------------------------------- specifications
\* Normalized records of London and New York a pipeline run can hand to its loader:
\* two of one city and dt that differ in everything else, and one of another city
\* with the condition key of the first and another icon.
RecordPool ==
    {transform_single_record(b) : b \in {Good(CITIES[1]), Alt(CITIES[1]), Night(CITIES[2])}}

\* All sequences over S of length at most n.
RECURSIVE SeqsUpTo(_, _)
SeqsUpTo(S, n) ==
    IF n = 0 THEN {<<>>}
    ELSE LET shorter == SeqsUpTo(S, n - 1)
         IN  shorter \cup {Append(q, x) : q \in {p \in shorter : Len(p) = n - 1}, x \in S}

NoEvent == [op |-> "init", r |-> 0]

\* One pipeline run, from the entry of run_etl_pipeline.
Init ==
    /\ store = EmptyStore
    /\ ext = ExtIdle
    /\ loader = [r \in Loaders |-> LoaderOff]
    /\ pipe = PipeAt("start")
    /\ tf = TfOff
    /\ ev = NoEvent

Next ==
    \/ PipelineStart
    \/ FetchAttempt
    \/ PipelineTransform
    \/ LoaderStep(1)
    \/ PipelineFinish
    \/ ProcessExit

Spec == Init /\ [][Next]_vars

\* The run as the interpreter executes it: one thread of control whose next
\* statement is always taken; every requests.get ends (REQUEST_TIMEOUT), every sleep
\* of the retry wrapper ends, and every statement sent to the database ends.
SpecRun == Spec /\ WF_vars(Next)

\* fetch_weather_for_cities called directly, on a prefix of the configured list in
\* which any entry may be malformed.
CityLists ==
    UNION { {[i \in 1..n |-> IF i \in bad THEN NoneV ELSE CITIES[i]] : bad \in SUBSET (1..n)} :
            n \in 0..MaxCities }

InitFetch ==
    /\ store = EmptyStore
    /\ \E cities \in CityLists : ext = StartFetch(cities)
    /\ loader = [r \in Loaders |-> LoaderOff]
    /\ pipe = PipeAt("off")
    /\ tf = TfOff
    /\ ev = NoEvent

NextFetch == FetchAttempt \/ FetchMalformed

SpecFetch == InitFetch /\ [][NextFetch]_vars

\* Two processes, each inside load_multiple_records, on one store: a run and an
\* overlapping run of at most one record.
InitLoad ==
    /\ store = EmptyStore
    /\ ext = ExtIdle
    /\ \E l1 \in SeqsUpTo(RecordPool, MaxRecords), l2 \in SeqsUpTo(RecordPool, 1) :
         loader = [r \in Loaders |->
                     StartLoad(IF r = 1 THEN l1 ELSE l2, 1, 0, FALSE, <<>>, <<>>)]
    /\ pipe = PipeAt("off")
    /\ tf = TfOff
    /\ ev = NoEvent

NextLoad == \E r \in Loaders : LoaderStep(r) \/ Reload(r)

SpecLoad == InitLoad /\ [][NextLoad]_vars

\* transform_multiple_records called directly on a list of raw records of London.
InitTransform ==
    /\ store = EmptyStore
    /\ ext = ExtIdle
    /\ loader = [r \in Loaders |-> LoaderOff]
    /\ pipe = PipeAt("off")
    /\ \E raw_data_list \in SeqsUpTo(RawInputs(CITIES[1]), MaxRaw) :
         tf = StartTransform(raw_data_list)
    /\ ev = NoEvent

NextTransform == TransformRecord

SpecTransform == InitTransform /\ [][NextTransform]_vars

\* validate_transformed_data called directly.
InitValidate ==
    /\ store = EmptyStore
    /\ ext = ExtIdle
    /\ loader = [r \in Loaders |-> LoaderOff]
    /\ pipe = PipeAt("off")
    /\ tf = TfOff
    /\ ev = NoEvent

NextValidate == ValidateRecord

SpecValidate == InitValidate /\ [][NextValidate]_vars

\* ------------------------------------------------------------ the claims
InTempRange(m) ==
    m.temperature_celsius >= TEMP_MIN * 100 /\ m.temperature_celsius <= TEMP_MAX * 100
InHumidityRange(m) ==
    m.humidity_percent >= HUMIDITY_MIN /\ m.humidity_percent <= HUMIDITY_MAX

\* C1: in a pipeline run, every normalized record handed to the loader, and every
\* measurement row of the store, has its temperature in [-100, 60] and its humidity
\* in [0, 100].
C1_HandedRecordsInRange ==
    /\ \A i \in DOMAIN loader[1].list :
         /\ InTempRange(loader[1].list[i].measurement)
         /\ InHumidityRange(loader[1].list[i].measurement)
    /\ \A i \in DOMAIN store.weather_measurements :
         /\ InTempRange(store.weather_measurements[i])
         /\ InHumidityRange(store.weather_measurements[i])

\* The finished fetches of fetch_weather_for_cities that issued a requests.get.
Fetches == {ext.log[i] : i \in {j \in DOMAIN ext.log : ext.log[j].ret # "malformed"}}
\* The attempt a (a requests.get and how it ended) made fetch_weather_by_city raise.
AttemptRaised(a) == fetch_weather_by_city(a.o, a.body).kind = "raise"

\* C2: when every attempt of the retry-wrapped fetch_weather_by_city raises, the GET
\* is issued exactly MAX_RETRIES times and the exception of the last attempt is
\* re-raised; no call ever issues more than MAX_RETRIES GETs.
C2_ExhaustedRetriesReraise ==
    /\ Len(ext.outs) < MAX_RETRIES
    /\ \A e \in Fetches :
         /\ Len(e.outs) <= MAX_RETRIES
         /\ (\A k \in DOMAIN e.outs : AttemptRaised(e.outs[k]))
              => /\ Len(e.outs) = MAX_RETRIES
                 /\ e.ret = "raise"
                 /\ e.exc = e.outs[MAX_RETRIES].o

C2_Witness ==
    \E e \in Fetches :
        /\ e.ret = "raise"
        /\ Len(e.outs) = MAX_RETRIES
        /\ e.outs[1].o = "timeout"
        /\ e.outs[MAX_RETRIES].o = "other_exception"

\* C3 as claimed: an attempt that fails with a timeout or a connection error is
\* followed by another attempt unless it was the last of the budget.
C3_TransientFailureRetried ==
    \A e \in Fetches : \A k \in DOMAIN e.outs :
        (e.outs[k].o \in {"timeout", "connection_error"} /\ k < MAX_RETRIES)
            => k < Len(e.outs)

\* C3 as amended: a timed-out attempt is followed by another attempt unless it was
\* the last of the budget, and a fetch ends by an exception (the city skipped by the
\* batch's handler) only with the budget exhausted; a connection error ends the
\* call at once with null, without another attempt.
C3_TimeoutRetriedConnectionErrorNot ==
    \A e \in Fetches :
        /\ \A k \in DOMAIN e.outs :
             /\ (e.outs[k].o = "timeout" /\ k < MAX_RETRIES) => k < Len(e.outs)
             /\ e.outs[k].o = "connection_error"
                  => (k = Len(e.outs) /\ e.ret = "return" /\ e.data = NoneV)
        /\ e.ret = "raise" => Len(e.outs) = MAX_RETRIES

C3_Witness ==
    \E e \in Fetches :
        /\ Len(e.outs) = 2
        /\ e.outs[1].o = "timeout"
        /\ e.outs[2].o = "connection_error"
        /\ e.data = NoneV

\* How a GET ends that is neither a response nor a timeout.
TerminalOutcomes == HttpErrors \cup {"connection_error", "request_exception"}

\* C4: a GET ending in 401, 404, another HTTP error status or a non-timeout request
\* failure makes the call return null without raising, and no GET follows it in
\* that call: when the first GET ends so, the call issued exactly one GET.
C4_TerminalErrorsReturnNull ==
    /\ \A k \in DOMAIN ext.outs : ext.outs[k].o \notin TerminalOutcomes
    /\ \A e \in Fetches : \A k \in DOMAIN e.outs :
         e.outs[k].o \in TerminalOutcomes
            => (k = Len(e.outs) /\ e.ret = "return" /\ e.data = NoneV /\ e.exc = "none")

C4_Witness ==
    \E e \in Fetches, f \in Fetches :
        /\ Len(e.outs) = 1 /\ e.outs[1].o = "http401" /\ e.ret = "return" /\ e.data = NoneV
        /\ Len(f.outs) = 1 /\ f.outs[1].o = "request_exception" /\ f.data = NoneV

\* C5: when the first k attempts time out (k < MAX_RETRIES) and attempt k+1 gets a
\* response, the call returns that response's record after exactly k+1 GETs: no call
\* ends on fewer than MAX_RETRIES timeouts alone, and a response is the last GET.
C5_RetryStopsAtFirstSuccess ==
    \A e \in Fetches :
        LET n == Len(e.outs)
        IN  /\ \A k \in DOMAIN e.outs : e.outs[k].o = "ok" => k = n
            /\ (\A k \in DOMAIN e.outs : e.outs[k].o = "timeout") => n = MAX_RETRIES
            /\ (e.outs[n].o = "ok" /\ \A k \in 1..(n - 1) : e.outs[k].o = "timeout")
                 => (e.ret = "return" /\ e.data = e.outs[n].body /\ n <= MAX_RETRIES)

C5_Witness ==
    \E e \in Fetches :
        /\ Len(e.outs) = MAX_RETRIES
        /\ \A k \in 1..(MAX_RETRIES - 1) : e.outs[k].o = "timeout"
        /\ e.outs[MAX_RETRIES].o = "ok"
        /\ e.data = e.outs[MAX_RETRIES].body

\* The records of the finished fetches whose last GET got a response with a
\* non-empty body, in the order of the fetches.
RECURSIVE FetchedRecords(_)
FetchedRecords(log) ==
    IF log = <<>> THEN <<>>
    ELSE LET e == Head(log)
             n == Len(e.outs)
         IN  (IF n > 0 /\ e.outs[n].o = "ok" THEN <<e.outs[n].body>> ELSE <<>>)
                 \o FetchedRecords(Tail(log))

AllWellFormed(cities) == \A i \in DOMAIN cities : WellFormed(cities[i])

\* C6: on a list of city entries (each a dict), whatever the outcome of each city's
\* fetch, fetch_weather_for_cities does not raise, handles the cities in list order
\* and returns exactly the records of the cities whose fetch got one, in that order.
C6_BatchReturnsSuccessesInOrder ==
    AllWellFormed(ext.cities) =>
        /\ ext.pc # "raised"
        /\ ext.weather_data = FetchedRecords(ext.log)
        /\ \A i \in DOMAIN ext.log : ext.log[i].city = ext.cities[i]
        /\ ext.pc = "returned" => Len(ext.log) = Len(ext.cities)

C6_Witness ==
    /\ ext.pc = "returned"
    /\ AllWellFormed(ext.cities)
    /\ Len(ext.cities) = 2
    /\ ext.log[1].ret = "raise"
    /\ ext.log[2].ret = "return"
    /\ ext.weather_data = <<Good(ext.cities[2])>>

\* Loader r is the only process using the store.
SequentialUse(r) == \A q \in Loaders \ {r} : loader[q].list = <<>>

\* Of the last two calls of an upsert by one loader: when both had the same key, both
\* returned the same identifier.
SameIdentifier(calls) ==
    (Len(calls) = 2 /\ calls[1].key = calls[2].key)
        => (calls[1].ret = calls[2].ret /\ calls[2].ret # Null)

CityRowsOf(key) ==
    {i \in DOMAIN store.cities :
        <<store.cities[i].city_name, store.cities[i].country_code>> = key}
ConditionRowsOf(key) ==
    {i \in DOMAIN store.weather_conditions :
        <<store.weather_conditions[i].main_condition,
          store.weather_conditions[i].description>> = key}

\* C7: two calls of load_city in sequence with one (city_name, country_code), with no
\* other process and no failure of the data layer, return the same identifier and
\* leave exactly one row of that key; the same for load_weather_condition and
\* (main_condition, description).
C7_UpsertIdempotent ==
    \A r \in Loaders :
        (SequentialUse(r) /\ loader[r].faults = 0) =>
            /\ SameIdentifier(loader[r].city_calls)
            /\ \A k \in DOMAIN loader[r].city_calls :
                 Cardinality(CityRowsOf(loader[r].city_calls[k].key)) = 1
            /\ SameIdentifier(loader[r].cond_calls)
            /\ \A k \in DOMAIN loader[r].cond_calls :
                 Cardinality(ConditionRowsOf(loader[r].cond_calls[k].key)) = 1

C7_Witness ==
    LET l == loader[1]
    IN  /\ SequentialUse(1) /\ l.faults = 0
        /\ Len(l.city_calls) = 2 /\ l.city_calls[1].key = l.city_calls[2].key
        /\ l.city_calls[1].ret = l.city_calls[2].ret
        /\ Len(l.cond_calls) = 2 /\ l.cond_calls[1].key = l.cond_calls[2].key
        /\ l.cond_calls[1].ret = l.cond_calls[2].ret
        /\ Len(store.cities) = 1 /\ Len(store.weather_conditions) = 1

LoaderOps ==
    {"load_city", "select_city", "load_weather_condition", "select_condition",
     "load_measurement"}

\* C8: a re-run of the load with the same records, after a run in which every record
\* loaded, changes no table at any of its steps, and with no failure of the data
\* layer during the re-run every record is again counted as a success.
C8_RerunLeavesStoreUnchanged ==
    /\ (ev.op \in LoaderOps /\ loader[ev.r].pass > 1 /\ loader[ev.r].prev_ok)
          => store = ev.before
    /\ \A r \in Loaders :
         (loader[r].pc = "done" /\ loader[r].pass > 1 /\ loader[r].prev_ok
            /\ loader[r].pass_faults = 0)
           => /\ loader[r].success_count = Len(loader[r].list)
              /\ loader[r].failure_count = 0

C8_Witness ==
    LET l == loader[1]
    IN  /\ l.pc = "done" /\ l.pass = 2 /\ l.prev_ok /\ l.pass_faults = 0
        /\ Len(l.list) >= 1
        /\ l.success_count = Len(l.list)
        /\ ev.op = "load_measurement" /\ ev.r = 1
        /\ store = ev.before
        /\ Len(store.weather_measurements) >= 1

\* The rows of measurements with the key (city_id, measurement_timestamp) of row.
RowsWithKeyOf(measurements, row) ==
    {i \in DOMAIN measurements :
        /\ measurements[i].city_id = row.city_id
        /\ measurements[i].measurement_timestamp = row.measurement_timestamp}

\* C9: load_measurement for a (city_id, measurement_timestamp) that has a row, with
\* no failure of the data layer, leaves weather_measurements as it was (the row
\* unchanged, no row added) and returns true, whatever the new values.
C9_StoredMeasurementImmutable ==
    (/\ ev.op = "load_measurement"
     /\ ev.err = "none"
     /\ RowsWithKeyOf(ev.before.weather_measurements, ev.data) # {})
        => /\ store.weather_measurements = ev.before.weather_measurements
           /\ ev.ret = TRUE
           /\ loader[ev.r].success_count >= 1

C9_Witness ==
    /\ ev.op = "load_measurement"
    /\ ev.err = "none"
    /\ ev.ret = TRUE
    /\ \E i \in RowsWithKeyOf(ev.before.weather_measurements, ev.data) :
         /\ ev.before.weather_measurements[i].temperature_celsius # ev.data.temperature_celsius
         /\ ev.before.weather_measurements[i].condition_id # ev.data.condition_id
    /\ store.weather_measurements = ev.before.weather_measurements

ShortCircuited(d) ==
    LET c == d.calls
        n == Len(c)
    IN  /\ n >= 1
        /\ c[1].op = "load_city"
        /\ IF ~TruthyNum(c[1].ret) THEN n = 1 /\ d.result = FALSE
           ELSE /\ n >= 2
                /\ c[2].op = "load_weather_condition"
                /\ IF ~TruthyNum(c[2].ret) THEN n = 2 /\ d.result = FALSE
                   ELSE n = 3 /\ c[3].op = "load_measurement" /\ d.result = c[3].ret

\* C11: load_weather_record short-circuits: after a load_city without identifier
\* neither load_weather_condition nor load_measurement runs and the result is false;
\* after a load_weather_condition without identifier load_measurement does not run
\* and the result is false; otherwise the result is that of load_measurement.  A
\* loader is inside load_weather_condition only with a city identifier, and inside
\* load_measurement only with both identifiers.
C11_LoadRecordShortCircuits ==
    \A r \in Loaders :
        LET l == loader[r]
        IN  /\ \A k \in DOMAIN l.done : ShortCircuited(l.done[k])
            /\ l.pc \in {"cond_select", "cond_insert"}
                 => (Len(l.calls) = 1 /\ TruthyNum(l.calls[1].ret))
            /\ l.pc = "meas_insert"
                 => (Len(l.calls) = 2 /\ TruthyNum(l.calls[1].ret) /\ TruthyNum(l.calls[2].ret))

\* One record stopped after load_city (no identifier), another after
\* load_weather_condition (no identifier): neither reached load_measurement.
C11_Witness ==
    /\ \E r \in Loaders : \E k \in DOMAIN loader[r].done :
         /\ Len(loader[r].done[k].calls) = 1
         /\ loader[r].done[k].calls[1].ret = Null
         /\ loader[r].done[k].result = FALSE
    /\ \E r \in Loaders : \E k \in DOMAIN loader[r].done :
         /\ Len(loader[r].done[k].calls) = 2
         /\ loader[r].done[k].calls[1].ret # Null
         /\ loader[r].done[k].calls[2].ret = Null
         /\ loader[r].done[k].result = FALSE
    /\ store.weather_measurements = <<>>

\* C12: load_multiple_records attempts each record once, in list order, whatever
\* fails: the records finished so far are the first i - 1 of the list, the two
\* counters tally their results, and on return every record of the list has been
\* attempted and success + failure = total = the length of the list.
C12_EveryRecordTalliedOnce ==
    \A r \in Loaders :
        LET l == loader[r]
        IN  /\ Len(l.done) = l.i - 1
            /\ \A k \in DOMAIN l.done : l.done[k].index = k
            /\ l.success_count = Cardinality({k \in DOMAIN l.done : l.done[k].result})
            /\ l.failure_count = Cardinality({k \in DOMAIN l.done : ~l.done[k].result})
            /\ l.pc \in {"done", "closed"}
                 => /\ Len(l.done) = Len(l.list)
                    /\ load_result(l).total = Len(l.list)
                    /\ load_result(l).success + load_result(l).failure = load_result(l).total

\* A list of two records of which the first failed to load and the second loaded.
C12_Witness ==
    LET l == loader[1]
    IN  /\ l.pc = "done"
        /\ Len(l.list) = 2
        /\ l.done[1].result = FALSE
        /\ l.done[2].result = TRUE
        /\ load_result(l) = [success |-> 1, failure |-> 1, total |-> 2]

\* The run has left run_etl_pipeline (returned, or the process ended after it).
RunEnded == pipe.pc \in {"done", "exited"}
\* The loader of the run has never executed a statement of a load.
NothingLoaded ==
    /\ loader[1].pc \in {"off", "ready"}
    /\ loader[1].calls = <<>>
    /\ loader[1].done = <<>>
    /\ store = EmptyStore

\* C13: a run whose configuration lacks the API key or the DB password, or whose
\* loader's connection test returns false, has ended in FAILURE as soon as it has
\* started, without any HTTP GET and without any row written.
C13_PreconditionFailureAbortsRun ==
    (/\ pipe.pc # "start"
     /\ \/ ~pipe.env.api_key
        \/ ~pipe.env.db_password
        \/ (pipe.env.engine /\ ~pipe.env.connection))
        => /\ RunEnded
           /\ pipe.result = "FAILURE"
           /\ ext.pc = "idle"
           /\ ext.gets = 0
           /\ NothingLoaded

\* The configuration is complete and the connection test fails.
C13_Witness ==
    /\ pipe.pc = "done"
    /\ pipe.env = [api_key |-> TRUE, db_password |-> TRUE, engine |-> TRUE,
                   connection |-> FALSE]
    /\ pipe.result = "FAILURE"
    /\ ext.gets = 0
    /\ loader[1].pc = "ready"

\* C14: once the extraction has returned an empty list, or the transformation of
\* a non-empty extraction an empty list, the run has ended in FAILURE and the load
\* stage was not entered: no upsert, no insert.
C14_EmptyStageAbortsBeforeLoad ==
    (/\ startup(pipe.env) = "ok"
     /\ pipe.pc \notin {"start", "extract"}
     /\ ext.pc = "returned"
     /\ \/ ext.weather_data = <<>>
        \/ transform_multiple_records(ext.weather_data) = <<>>)
        => /\ RunEnded
           /\ pipe.result = "FAILURE"
           /\ NothingLoaded

\* Two records were extracted and neither could be transformed.
C14_Witness ==
    /\ pipe.pc = "done"
    /\ Len(ext.weather_data) = 2
    /\ transform_multiple_records(ext.weather_data) = <<>>
    /\ pipe.result = "FAILURE"
    /\ loader[1].pc = "ready"

\* C15: a run that reached the load stage reports SUCCESS once load_multiple_records
\* has returned, whatever the counts; a run reports FAILURE only after a failed
\* precondition (configuration, connection test), an exception leaving a stage
\* (the loader's constructor, the extraction) or an empty stage result.
C15_SuccessOnceLoadReturns ==
    /\ (RunEnded /\ loader[1].list # <<>>) => pipe.result = "SUCCESS"
    /\ (RunEnded /\ pipe.result = "FAILURE")
         => \/ startup(pipe.env) # "ok"
            \/ ext.pc = "raised"
            \/ ext.weather_data = <<>>
            \/ transform_multiple_records(ext.weather_data) = <<>>

\* Every record handed to the loader failed to load, and the run reports SUCCESS.
C15_Witness ==
    /\ pipe.pc = "done"
    /\ pipe.result = "SUCCESS"
    /\ loader[1].list # <<>>
    /\ load_result(loader[1]).success = 0
    /\ load_result(loader[1]).failure = Len(loader[1].list)

\* C16: the exit status of the process is zero when the run ended in SUCCESS and
\* non-zero when it ended in FAILURE.
C16_ExitStatusReflectsOutcome ==
    pipe.pc = "exited" => (pipe.exit = 0 <=> pipe.result = "SUCCESS")

\* C17: a run that constructed the loader has closed it when the run ends, in
\* every terminal state.
C17_LoaderClosedWhenRunEnds ==
    (RunEnded /\ loader[1].pc # "off") => loader[1].pc = "closed"

\* The raw record and the result of the k-th call of transform_single_record.
RawOf(k) == tf.raw_data_list[k]
OutOf(k) == tf.outs[k]
\* The main temperature of a raw record (thousandths), or null.
MainTemp(raw) == IF "main" \in DOMAIN raw THEN Get(raw.main, "temp") ELSE Null

\* C18: for a raw record lacking coord, main or name, transform_single_record
\* returns null.
C18_MissingRequiredFieldGivesNull ==
    \A k \in DOMAIN tf.outs :
        (RequiredFields \ DOMAIN RawOf(k) # {}) => OutOf(k) = NoneV

\* A record lacking only coord and a record lacking only name, both transformed.
C18_Witness ==
    /\ Len(tf.outs) = 2
    /\ RawOf(1) = Without(Good(CITIES[1]), "coord")
    /\ RawOf(2) = Without(Good(CITIES[1]), "name")
    /\ OutOf(1) = NoneV
    /\ OutOf(2) = NoneV

\* C19: for a raw record whose main temperature is below -100 or above 60,
\* transform_single_record returns null; a temperature within the limits, the
\* limits -100 and 60 and zero included, is not rejected: a record with it whose
\* mapping succeeds is returned, with that temperature rounded.
C19_TemperatureRangeChecked ==
    \A k \in DOMAIN tf.outs :
        LET temp == MainTemp(RawOf(k))
        IN  temp # Null =>
              /\ (temp < TEMP_MIN * 1000 \/ temp > TEMP_MAX * 1000) => OutOf(k) = NoneV
              /\ (/\ temp >= TEMP_MIN * 1000
                  /\ temp <= TEMP_MAX * 1000
                  /\ RequiredFields \subseteq DOMAIN RawOf(k)
                  /\ mapping_exception(RawOf(k)) = "none")
                   => /\ ~validate_weather_data_raises(RawOf(k))
                      /\ OutOf(k) # NoneV
                      /\ OutOf(k).measurement.temperature_celsius = Round2(temp)

\* A record at exactly 60 is returned and a record just below -100 is not.
C19_Witness ==
    /\ Len(tf.outs) = 2
    /\ RawOf(1) = SetTemp(Good(CITIES[1]), TEMP_MAX * 1000)
    /\ OutOf(1) # NoneV
    /\ OutOf(1).measurement.temperature_celsius = TEMP_MAX * 100
    /\ RawOf(2) = SetTemp(Good(CITIES[1]), TEMP_MIN * 1000 - 1)
    /\ OutOf(2) = NoneV

\* A normalized record with its three sections and every field of each.
Complete(out) ==
    /\ DOMAIN out = {"city", "condition", "measurement"}
    /\ DOMAIN out.city =
         {"city_name", "country_code", "latitude", "longitude", "timezone_offset"}
    /\ DOMAIN out.condition = {"main_condition", "description", "icon_code"}
    /\ DOMAIN out.measurement =
         {"temperature_celsius", "feels_like_celsius", "temp_min_celsius",
          "temp_max_celsius", "pressure_hpa", "humidity_percent", "visibility_meters",
          "wind_speed_mps", "wind_direction_degrees", "cloudiness_percent",
          "measurement_timestamp", "api_call_timestamp"}

\* C20: no exception leaves transform_single_record: for every raw record it
\* returns a complete normalized record or null, and null for a record with an
\* empty weather list, without sys or country, without dt, without a main
\* sub-field or with a null temperature.
C20_TransformNeverRaises ==
    /\ tf.pc # "raised"
    /\ \A k \in DOMAIN tf.outs :
         /\ OutOf(k) = NoneV \/ Complete(OutOf(k))
         /\ RawOf(k) \in Unmappable(CITIES[1]) \cup {SetTemp(Good(CITIES[1]), Null)}
              => OutOf(k) = NoneV

\* A record with an empty weather list and one with a null temperature, both
\* transformed, and transform_multiple_records returned.
C20_Witness ==
    /\ tf.pc = "returned"
    /\ Len(tf.outs) = 2
    /\ RawOf(1) = [Good(CITIES[1]) EXCEPT !.weather = <<>>]
    /\ RawOf(2) = SetTemp(Good(CITIES[1]), Null)
    /\ OutOf(1) = NoneV
    /\ OutOf(2) = NoneV
    /\ tf.transformed_records = <<>>

\* C21: validate_transformed_data returns true exactly when the three sections are
\* present, the temperature is a number in [-100, 60] and the humidity a number in
\* [0, 100], limits included; otherwise it returns false.
C21_ValidateTransformedExact ==
    ev.op = "validate_transformed_data" =>
        /\ ev.ret \in BOOLEAN
        /\ ev.ret <=>
             /\ Sections \subseteq DOMAIN ev.data
             /\ "temperature_celsius" \in DOMAIN ev.data.measurement
             /\ "humidity_percent" \in DOMAIN ev.data.measurement
             /\ InTempRange(ev.data.measurement)
             /\ InHumidityRange(ev.data.measurement)

\* Humidity 150 with a temperature in range: false.
C21_Witness ==
    /\ ev.op = "validate_transformed_data"
    /\ ev.data = Normalized(1550, 150)
    /\ ev.ret = FALSE

\* The results that are not null, in order.
RECURSIVE NonNull(_)
NonNull(outs) ==
    IF outs = <<>> THEN <<>>
    ELSE (IF Head(outs) = NoneV THEN <<>> ELSE <<Head(outs)>>) \o NonNull(Tail(outs))

\* C22: transform_multiple_records calls transform_single_record on each element in
\* order and returns exactly the results that are not null, in that order: on
\* return every element has been transformed once and the output is no longer
\* than the input.
C22_TransformManyKeepsSurvivorsInOrder ==
    /\ \A k \in DOMAIN tf.outs : OutOf(k) = transform_single_record(RawOf(k))
    /\ tf.transformed_records = NonNull(tf.outs)
    /\ tf.pc = "returned"
         => /\ Len(tf.outs) = Len(tf.raw_data_list)
            /\ Len(tf.transformed_records) <= Len(tf.raw_data_list)
            /\ tf.transformed_records = transform_multiple_records(tf.raw_data_list)

\* A failing record before a valid one: the valid one alone is returned.
C22_Witness ==
    /\ tf.pc = "returned"
    /\ Len(tf.outs) = 2
    /\ RawOf(1) = Without(Good(CITIES[1]), "coord")
    /\ RawOf(2) = Alt(CITIES[1])
    /\ OutOf(1) = NoneV
    /\ tf.transformed_records = <<transform_single_record(Alt(CITIES[1]))>>

\* C23: of a weather list with more than one entry, the condition of the result is
\* the first entry's main, description and icon; nothing of a later entry.
C23_ConditionFromFirstWeatherEntry ==
    \A k \in DOMAIN tf.outs :
        (/\ OutOf(k) # NoneV
         /\ Len(RawOf(k).weather) > 1)
            => /\ OutOf(k).condition =
                    [ main_condition |-> RawOf(k).weather[1].main,
                      description |-> RawOf(k).weather[1].description,
                      icon_code |-> RawOf(k).weather[1].icon ]
               /\ \A j \in 2..Len(RawOf(k).weather) :
                    /\ OutOf(k).condition.main_condition # RawOf(k).weather[j].main
                    /\ OutOf(k).condition.description # RawOf(k).weather[j].description
                    /\ OutOf(k).condition.icon_code # RawOf(k).weather[j].icon

\* The record with the entries light rain, clear sky maps to light rain.
C23_Witness ==
    \E k \in DOMAIN tf.outs :
        /\ RawOf(k) = Alt(CITIES[1])
        /\ OutOf(k) # NoneV
        /\ OutOf(k).condition.description = "light rain"

\* C24: a raw record valid but for absent optional groups is transformed, with
\* null (no number) for visibility_meters when visibility is absent, for
\* wind_speed_mps and wind_direction_degrees when wind is absent and for
\* cloudiness_percent when clouds is absent, and timezone_offset 0 when timezone
\* is absent.
C24_AbsentOptionalGroupsGiveNull ==
    \A k \in DOMAIN tf.outs :
        /\ RawOf(k) \in LackingOptional(CITIES[1]) => OutOf(k) # NoneV
        /\ OutOf(k) # NoneV =>
             /\ "visibility" \notin DOMAIN RawOf(k)
                  => OutOf(k).measurement.visibility_meters = Null
             /\ "wind" \notin DOMAIN RawOf(k)
                  => /\ OutOf(k).measurement.wind_speed_mps = Null
                     /\ OutOf(k).measurement.wind_direction_degrees = Null
             /\ "clouds" \notin DOMAIN RawOf(k)
                  => OutOf(k).measurement.cloudiness_percent = Null
             /\ "timezone" \notin DOMAIN RawOf(k)
                  => OutOf(k).city.timezone_offset = 0

\* The record without visibility, wind, clouds and timezone, transformed.
C24_Witness ==
    \E k \in DOMAIN tf.outs :
        /\ RawOf(k) = Drop(Good(CITIES[1]), OptionalGroups)
        /\ OutOf(k) # NoneV
        /\ OutOf(k).measurement.visibility_meters = Null
        /\ OutOf(k).measurement.wind_speed_mps = Null
        /\ OutOf(k).measurement.cloudiness_percent = Null
        /\ OutOf(k).city.timezone_offset = 0
        /\ OutOf(k).measurement.temperature_celsius = 1550

\* The pairs of a raw temperature field and the field it is mapped to.
TempFields ==
    { <<"temp", "temperature_celsius">>, <<"feels_like", "feels_like_celsius">>,
      <<"temp_min", "temp_min_celsius">>, <<"temp_max", "temp_max_celsius">> }

\* C25: each of the four temperature fields of a result is the raw value rounded to
\* 2 decimals (the nearest hundredth: no further than half a hundredth from the raw
\* value), the same for the same raw value; 15.556 gives 15.56, 14.777 gives 14.78,
\* 13.333 gives 13.33 and 17.999 gives 18.0; pressure and humidity are copied.
C25_TemperaturesRoundedToTwoDecimals ==
    \A k \in DOMAIN tf.outs :
        OutOf(k) # NoneV =>
            /\ \A p \in TempFields :
                 LET raw == RawOf(k).main[p[1]]
                     out == OutOf(k).measurement[p[2]]
                 IN  /\ 10 * out - raw \in -5..5
                     /\ raw % 10 = 0 => 10 * out = raw
            /\ OutOf(k).measurement.pressure_hpa = RawOf(k).main.pressure
            /\ OutOf(k).measurement.humidity_percent = RawOf(k).main.humidity
            /\ RawOf(k) = Rounding(CITIES[1])
                 => /\ OutOf(k).measurement.temperature_celsius = 1556
                    /\ OutOf(k).measurement.feels_like_celsius = 1478
                    /\ OutOf(k).measurement.temp_min_celsius = 1333
                    /\ OutOf(k).measurement.temp_max_celsius = 1800
            /\ \A j \in DOMAIN tf.outs :
                 RawOf(j) = RawOf(k) => OutOf(j) = OutOf(k)

\* The record of the four example temperatures, transformed.
C25_Witness ==
    \E k \in DOMAIN tf.outs :
        /\ RawOf(k) = Rounding(CITIES[1])
        /\ OutOf(k) # NoneV
        /\ OutOf(k).measurement.temperature_celsius = 1556
        /\ OutOf(k).measurement.temp_max_celsius = 1800

\* The last call of load_weather_record that loader r finished.
LastDone(r) == loader[r].done[Len(loader[r].done)]

\* C26: a statement of the loader failing on the data layer (connectivity loss at a
\* select, an insert or its commit; a constraint violation at an insert) raises
\* nothing: load_city and load_weather_condition return null, load_measurement
\* returns false, load_weather_record returns false and the batch goes on; the
\* table of a failed insert is left without the row.
C26_DataLayerFailureReturnsNull ==
    (ev.op \in LoaderOps /\ ev.err \in {"fault", "unique"}) =>
        /\ ev.op \in {"load_city", "load_weather_condition"} => ev.ret = Null
        /\ ev.op = "load_measurement" => ev.ret = FALSE
        /\ store = ev.before
        /\ loader[ev.r].done # <<>>
        /\ LastDone(ev.r).result = FALSE
        /\ LastDone(ev.r).calls[Len(LastDone(ev.r).calls)] = [op |-> ev.op, ret |-> ev.ret]
        /\ loader[ev.r].pc \in {"city_select", "done"}

\* The measurement insert failed after both upserts inserted their rows.
C26_Witness ==
    /\ ev.op = "load_measurement"
    /\ ev.err = "fault"
    /\ ev.ret = FALSE
    /\ Len(store.cities) = 1
    /\ Len(store.weather_conditions) = 1
    /\ store.weather_measurements = <<>>
    /\ LastDone(ev.r).result = FALSE

\* The measurement row of a normalized record is in the store: a row with the
\* record's timestamp whose city_id is that of a row of the record's city.
MeasurementPresent(record) ==
    \E i \in DOMAIN store.weather_measurements, c \in DOMAIN store.cities :
        /\ store.cities[c].city_name = record.city.city_name
        /\ store.cities[c].country_code = record.city.country_code
        /\ store.weather_measurements[i].city_id = store.cities[c].city_id
        /\ store.weather_measurements[i].measurement_timestamp =
             record.measurement.measurement_timestamp

\* C27: once two concurrent runs without connectivity loss have both finished,
\* every record either of them attempted to load has its measurement row in the
\* store.
C27_OverlapLosesNoData ==
    (/\ \A r \in Loaders : loader[r].pc = "done" /\ loader[r].pass = 1
     /\ DbFaults = 0)
        => \A r \in Loaders : \A k \in DOMAIN loader[r].list :
               MeasurementPresent(loader[r].list[k])

\* C28: every measurement row refers to a row of cities and a row of
\* weather_conditions, and load_measurement starts only with both rows in the
\* store.
C28_MeasurementsReferToExistingRows ==
    /\ \A i \in DOMAIN store.weather_measurements :
         /\ \E c \in DOMAIN store.cities :
              store.cities[c].city_id = store.weather_measurements[i].city_id
         /\ \E d \in DOMAIN store.weather_conditions :
              store.weather_conditions[d].condition_id =
                  store.weather_measurements[i].condition_id
    /\ ev.op = "load_measurement"
         => /\ \E c \in DOMAIN ev.before.cities :
                 ev.before.cities[c].city_id = ev.data.city_id
            /\ \E d \in DOMAIN ev.before.weather_conditions :
                 ev.before.weather_conditions[d].condition_id = ev.data.condition_id

\* Two measurement rows of two cities that share one condition row.
C28_Witness ==
    /\ Len(store.weather_measurements) = 2
    /\ Len(store.cities) = 2
    /\ Len(store.weather_conditions) = 1
    /\ store.weather_measurements[1].city_id # store.weather_measurements[2].city_id
    /\ store.weather_measurements[1].condition_id = store.weather_measurements[2].condition_id

\* C29: fetch_weather_for_cities skips a city entry whose name and country cannot be
\* read, wherever it is in the list, and goes on: no exception leaves it and on
\* return every entry has been handled.
C29_MalformedEntrySkipped ==
    /\ ext.pc # "raised"
    /\ ext.pc = "returned" => Len(ext.log) = Len(ext.cities)

\* Table now holds every row it held before, unchanged and at its place.
AppendOnly(before, now) ==
    \A i \in DOMAIN before : i \in DOMAIN now /\ now[i] = before[i]

\* C30: no step of a loader updates or deletes a row of cities or
\* weather_conditions; load_city for a (city_name, country_code) that has a row
\* returns that row's identifier and leaves cities as it was, whatever the new
\* latitude, longitude or timezone_offset, and load_weather_condition likewise for
\* (main_condition, description), whatever the new icon_code.
C30_DimensionRowsNeverUpdated ==
    ev.op \in LoaderOps =>
        /\ AppendOnly(ev.before.cities, store.cities)
        /\ AppendOnly(ev.before.weather_conditions, store.weather_conditions)
        /\ (ev.op = "load_city" /\ ev.err = "none")
             => \A i \in DOMAIN ev.before.cities :
                  (/\ ev.before.cities[i].city_name = ev.data.city_name
                   /\ ev.before.cities[i].country_code = ev.data.country_code)
                     => /\ store.cities = ev.before.cities
                        /\ ev.ret = ev.before.cities[i].city_id
        /\ (ev.op = "load_weather_condition" /\ ev.err = "none")
             => \A i \in DOMAIN ev.before.weather_conditions :
                  (/\ ev.before.weather_conditions[i].main_condition = ev.data.main_condition
                   /\ ev.before.weather_conditions[i].description = ev.data.description)
                     => /\ store.weather_conditions = ev.before.weather_conditions
                        /\ ev.ret = ev.before.weather_conditions[i].condition_id

\* load_city for a stored city with another latitude returned the stored row's
\* identifier and left the row as it was.
C30_Witness ==
    /\ ev.op = "load_city"
    /\ ev.err = "none"
    /\ \E i \in DOMAIN ev.before.cities :
         /\ ev.before.cities[i].city_name = ev.data.city_name
         /\ ev.before.cities[i].latitude # ev.data.latitude
         /\ ev.ret = ev.before.cities[i].city_id
         /\ store.cities[i] = ev.before.cities[i]
    /\ Len(store.cities) = 1

\* C31: the two temperature checkpoints agree: every normalized record that
\* transform_single_record returns has a raw temperature that
\* validate_weather_data let through and a rounded temperature_celsius within
\* [-100, 60], the temperature rule of validate_transformed_data.
C31_TemperatureCheckpointsAgree ==
    \A k \in DOMAIN tf.outs :
        OutOf(k) # NoneV =>
            /\ ~validate_weather_data_raises(RawOf(k))
            /\ OutOf(k).measurement.temperature_celsius # Null
            /\ InTempRange(OutOf(k).measurement)
            /\ validate_transformed_data(OutOf(k))
                 = InHumidityRange(OutOf(k).measurement)

\* Raw temperatures 59.996 and -99.996 were let through and rounded onto the
\* limits 60.00 and -100.00.
C31_Witness ==
    /\ Len(tf.outs) = 2
    /\ MainTemp(RawOf(1)) = TEMP_MAX * 1000 - 4
    /\ OutOf(1) # NoneV
    /\ OutOf(1).measurement.temperature_celsius = TEMP_MAX * 100
    /\ MainTemp(RawOf(2)) = TEMP_MIN * 1000 + 4
    /\ OutOf(2) # NoneV
    /\ OutOf(2).measurement.temperature_celsius = TEMP_MIN * 100

\* The calls one load_weather_record made: each operation at most once.
EachOpOnce(calls) ==
    \A a, b \in DOMAIN calls : calls[a].op = calls[b].op => a = b

\* The resources a run has used so far are within their limits.
C32_Bounded ==
    /\ ext.pc # "idle" => ext.cities = ConfiguredCities
    /\ ext.gets <= Len(ConfiguredCities) * MAX_RETRIES
    /\ ext.gets <= (ext.i - 1) * MAX_RETRIES + Len(ext.outs)
    /\ Len(ext.outs) <= MAX_RETRIES
    /\ \A k \in DOMAIN ext.log :
         /\ ext.log[k].city = ConfiguredCities[k]
         /\ Len(ext.log[k].outs) \in 1..MAX_RETRIES
    /\ Len(ext.weather_data) <= Len(ConfiguredCities)
    /\ loader[1].pc \notin {"off", "ready"}
         => /\ ext.pc = "returned"
            /\ loader[1].list = transform_multiple_records(ext.weather_data)
            /\ Len(loader[1].list) <= Len(ext.weather_data)
    /\ loader[1].pass = 1
    /\ Len(loader[1].done) <= Len(loader[1].list)
    /\ \A k \in DOMAIN loader[1].done :
         /\ loader[1].done[k].index = k
         /\ EachOpOnce(loader[1].done[k].calls)
    /\ EachOpOnce(loader[1].calls)
    /\ Len(store.weather_measurements) <= Len(loader[1].done) + 1
    /\ RunEnded => pipe.result \in {"SUCCESS", "FAILURE"}
    /\ ~RunEnded => pipe.result = "none"

\* The statements a load_weather_record call has behind it, by where it stands.
LoadStepsTaken(pc) ==
    CASE pc = "city_select" -> 0
      [] pc = "city_insert" -> 1
      [] pc = "cond_select" -> 2
      [] pc = "cond_insert" -> 3
      [] pc = "meas_insert" -> 4
      [] OTHER -> 0

\* The GETs the extractor may still issue: max_retries for each city not yet
\* begun, and what is left of them for the current one.
GetsLeft ==
    IF ext.pc = "call"
    THEN (Len(ext.cities) - ext.i + 1) * MAX_RETRIES - ext.attempt
    ELSE 0

\* The statements the loader may still send: five for each record not yet begun
\* (two selects, three inserts), and what is left of them for the current one.
StatementsLeft ==
    IF loader[1].pc \in {"city_select", "city_insert", "cond_select", "cond_insert",
                         "meas_insert"}
    THEN (Len(loader[1].list) - loader[1].i + 1) * 5 - LoadStepsTaken(loader[1].pc)
    ELSE 0

\* An upper bound on the steps a run has left.
StepsLeft ==
    CASE pipe.pc = "start" ->
           4 + Len(ConfiguredCities) * MAX_RETRIES + 5 * Len(ConfiguredCities)
      [] pipe.pc = "extract" -> 3 + GetsLeft + 5 * Len(ConfiguredCities)
      [] pipe.pc = "load" -> 2 + StatementsLeft
      [] pipe.pc = "done" -> 1
      [] OTHER -> 0

\* Termination itself: under the fairness of SpecRun the run reaches its end, in
\* SUCCESS or FAILURE.
C32_Terminates == <>(pipe.pc = "exited" /\ pipe.result \in {"SUCCESS", "FAILURE"})

\* C32: every pipeline run terminates, in SUCCESS or FAILURE, whatever the HTTP and
\* data-layer outcomes: it issues at most (configured cities) x max_retries GETs,
\* fetches the cities in the order supplied, transforms each extracted record once
\* and loads each normalized record at most once. Termination is stated by its
\* variant: a run that has not ended can take a step, and every step lowers
\* StepsLeft, a natural number that is 0 only at the end.
C32_RunTerminatesWithinBounds ==
    /\ []C32_Bounded
    /\ [](StepsLeft \in Nat /\ (StepsLeft = 0 <=> pipe.pc = "exited"))
    /\ [](pipe.pc # "exited" => ENABLED Next)
    /\ [][StepsLeft' < StepsLeft]_vars

\* A run that ended in SUCCESS after every city took max_retries GETs, with a
\* record that failed to load.
C32_Witness ==
    /\ pipe.pc = "exited"
    /\ pipe.result = "SUCCESS"
    /\ ext.gets = Len(ConfiguredCities) * MAX_RETRIES
    /\ Len(loader[1].list) = Len(ConfiguredCities)
    /\ loader[1].failure_count = 1

\* The fetch of every configured city has finished and the loader's list is the
\* transformation of everything extracted.
ExtractAndTransformOver ==
    /\ ext.pc = "returned"
    /\ ext.i = Len(ConfiguredCities) + 1
    /\ loader[1].list = transform_multiple_records(ext.weather_data)

\* C33: the stages of a run are strictly sequential: while a city is still to be
\* fetched no record has been transformed and the store has no row; a record is
\* handed to the loader, and a row written, only after the fetch of every
\* configured city has finished and every extracted record has been transformed.
C33_StagesStrictlySequential ==
    /\ ext.pc = "call"
         => /\ pipe.pc = "extract"
            /\ loader[1].pc = "ready"
            /\ loader[1].list = <<>>
            /\ store = EmptyStore
    /\ ev.op = "fetch" => loader[1].list = <<>> /\ store = EmptyStore
    /\ (loader[1].list # <<>> \/ pipe.pc = "load") => ExtractAndTransformOver
    /\ ev.op \in LoaderOps => ExtractAndTransformOver /\ pipe.pc = "load"
    /\ store # EmptyStore
         => /\ ExtractAndTransformOver
            /\ pipe.pc \in {"load", "done", "exited"}

\* The first of two records is stored and the second is about to be loaded, both
\* cities having been fetched, the second at its last attempt.
C33_Witness ==
    /\ pipe.pc = "load"
    /\ ext.gets = 1 + MAX_RETRIES
    /\ Len(ext.weather_data) = 2
    /\ Len(loader[1].list) = 2
    /\ loader[1].i = 2
    /\ loader[1].pc = "city_select"
    /\ Len(store.weather_measurements) = 1

\* C34: the steps of load_weather_record commit independently: when
\* load_weather_condition or load_measurement fails, the call returns false and
\* nothing is rolled back: the store is as the failed step found it, and the rows
\* whose identifiers the earlier steps of the call returned are still in it.
C34_StepsCommitIndependently ==
    (ev.op \in {"load_weather_condition", "load_measurement"}
        /\ ev.err \in {"fault", "unique"}) =>
        LET d == LastDone(ev.r)
            record == loader[ev.r].list[d.index]
        IN  /\ d.result = FALSE
            /\ store = ev.before
            /\ d.calls[1].op = "load_city"
            /\ \E c \in DOMAIN store.cities :
                 /\ store.cities[c].city_id = d.calls[1].ret
                 /\ store.cities[c].city_name = record.city.city_name
                 /\ store.cities[c].country_code = record.city.country_code
            /\ ev.op = "load_measurement"
                 => /\ d.calls[2].op = "load_weather_condition"
                    /\ \E k \in DOMAIN store.weather_conditions :
                         /\ store.weather_conditions[k].condition_id = d.calls[2].ret
                         /\ store.weather_conditions[k].main_condition =
                              record.condition.main_condition
                         /\ store.weather_conditions[k].description =
                              record.condition.description

\* The only call made so far inserted its city row and then failed at
\* load_weather_condition: the store holds a city row that no measurement
\* references.
C34_Witness ==
    /\ ev.op = "load_weather_condition"
    /\ ev.err = "fault"
    /\ loader[ev.r].pass = 1
    /\ Len(loader[ev.r].done) = 1
    /\ \A q \in Loaders \ {ev.r} : loader[q].list = <<>>
    /\ LastDone(ev.r).result = FALSE
    /\ Len(store.cities) = 1
    /\ store.cities[1].city_id = LastDone(ev.r).calls[1].ret
    /\ store.weather_conditions = <<>>
    /\ store.weather_measurements = <<>>

====
